---- MODULE Spec2Model ----
(***************************************************************************)
(* A model of va-docs-mcp: the relationship graph builder, the identifier  *)
(* resolver, the related-document resolver and the relevance scoring       *)
(* engine of utils/docs.ts, and the tool handlers of index.ts that use     *)
(* them.                                                                   *)
(*                                                                         *)
(* JavaScript strings are TLA+ strings; Len, SubSeq and \o act on them     *)
(* character by character.  A Document object is a record; an object with  *)
(* optional properties (DocumentRelationships, SearchOptions,              *)
(* RelatedDocuments) is a function whose DOMAIN is the set of properties   *)
(* that are present.  A reference to a Document is its index in the        *)
(* documents array, so a mutation through docMap is a mutation of the      *)
(* array element, as in the code.                                          *)
(***************************************************************************)
EXTENDS Integers, Sequences, FiniteSets, TLC

VARIABLES
    parsed,     \* the documents as parseDocument returned them (never written again)
    documents,  \* the Document[] the build mutates and the requests read
    docMap,     \* buildRelationshipIndex's Map, in insertion order: <<key, document index>>
    pc,         \* the position inside buildRelationshipIndex, or "ready" for requests
    idx,        \* the index of the document the build's forEach is at
    request,    \* the last call made
    response,   \* what that call returned or threw
    documentsLoaded,  \* the server's this.documentsLoaded
    loads,      \* how many times the server has assigned this.documents
    handlers    \* the server's tool-call handlers in progress, by request

vars == <<parsed, documents, docMap, pc, idx, request, response, documentsLoaded, loads, handlers>>

serverVars == <<documentsLoaded, loads, handlers>>

(***************************************************************************)
(* Bounds of the model.                                                    *)
(***************************************************************************)
MaxDocs == 2
MaxCap == 2
MaxLimit == 2

(***************************************************************************)
(* String.prototype helpers.                                               *)
(***************************************************************************)
\* the letters toLowerCase changes
LowerOf ==
    [ A |-> "a", B |-> "b", C |-> "c", D |-> "d", E |-> "e", F |-> "f", G |-> "g",
      H |-> "h", I |-> "i", J |-> "j", K |-> "k", L |-> "l", M |-> "m", N |-> "n",
      O |-> "o", P |-> "p", Q |-> "q", R |-> "r", S |-> "s", T |-> "t", U |-> "u",
      V |-> "v", W |-> "w", X |-> "x", Y |-> "y", Z |-> "z" ]

\* s.charAt(i - 1): the empty string outside the string
CharAt(s, i) == IF 1 <= i /\ i <= Len(s) THEN SubSeq(s, i, i) ELSE ""

\* s.substr(from - 1, n), n >= 0
substr(s, from, n) ==
    IF from > Len(s) THEN ""
    ELSE SubSeq(s, from, IF from + n - 1 <= Len(s) THEN from + n - 1 ELSE Len(s))

LowerChar(c) == IF c \in DOMAIN LowerOf THEN LowerOf[c] ELSE c

RECURSIVE lowerFrom(_, _)
lowerFrom(s, i) ==
    IF i > Len(s) THEN "" ELSE LowerChar(SubSeq(s, i, i)) \o lowerFrom(s, i + 1)

toLowerCase(s) == lowerFrom(s, 1)

includes(s, t) ==
    \E i \in 1..(Len(s) - Len(t) + 1) : SubSeq(s, i, i + Len(t) - 1) = t

startsWith(s, t) == Len(t) <= Len(s) /\ SubSeq(s, 1, Len(t)) = t

endsWith(s, t) == Len(t) <= Len(s) /\ SubSeq(s, Len(s) - Len(t) + 1, Len(s)) = t

\* path.replace(/\.md$/, '')
stripMd(s) == IF endsWith(s, ".md") THEN SubSeq(s, 1, Len(s) - 3) ELSE s

\* relativePath.split('/')[0]
RECURSIVE firstSegment(_)
firstSegment(s) ==
    IF Len(s) = 0 \/ CharAt(s, 1) = "/" THEN ""
    ELSE CharAt(s, 1) \o firstSegment(SubSeq(s, 2, Len(s)))

\* Array.prototype.includes
arrayIncludes(arr, x) == \E k \in 1..Len(arr) : arr[k] = x

\* Array.prototype.slice(0, n), n >= 0
slice0(arr, n) == SubSeq(arr, 1, IF n < Len(arr) THEN n ELSE Len(arr))

\* Array.prototype.filter, keep being the indices whose element the callback
\* accepts
SeqFilter(arr, keep) ==
    LET F[k \in 0..Len(arr)] ==
            IF k = 0 THEN <<>>
            ELSE IF k \in keep THEN Append(F[k - 1], arr[k]) ELSE F[k - 1]
    IN F[Len(arr)]

\* a call either returns a value or throws
Return(v) == [kind |-> "return", value |-> v]
Throw(name, message) == [kind |-> "throw", error |-> name, message |-> message]

\* an object's optional property
Has(obj, key) == key \in DOMAIN obj
SetProp(obj, key, val) == (key :> val) @@ obj
EmptyObject == [k \in {} |-> <<>>]

(***************************************************************************)
(* Documents.  lastModified is the document's age in days at the time of   *)
(* the request (Date.now() - lastModified, in days), or NoTimestamp when   *)
(* the property is undefined.                                              *)
(***************************************************************************)
NoTimestamp == -1

\* parseDocument: category is the first path segment, or 'general'
Document(relativePath, title, content, frontmatter, documentType, summary, lastModified, internalLinks, relationships) ==
    [ relativePath |-> relativePath,
      title |-> title,
      content |-> content,
      frontmatter |-> frontmatter,
      category |-> IF firstSegment(relativePath) = "" THEN "general"
                   ELSE firstSegment(relativePath),
      summary |-> summary,
      keySections |-> <<>>,
      estimatedReadTime |-> 1,
      documentType |-> documentType,
      lastModified |-> lastModified,
      relationships |-> relationships,
      internalLinks |-> internalLinks,
      externalReferences |-> <<>> ]

(***************************************************************************)
(* The Map of buildRelationshipIndex and resolveRelatedDocuments.          *)
(***************************************************************************)
\* What a lookup yields when there is no document: undefined.  null is a
\* different value, which no lookup yields.
undefined == 0
null == -1

\* Map.prototype.set: a new key goes last, a known key keeps its place
mapSet(m, key, val) ==
    IF \E k \in 1..Len(m) : m[k][1] = key
    THEN [k \in 1..Len(m) |-> IF m[k][1] = key THEN <<key, val>> ELSE m[k]]
    ELSE Append(m, <<key, val>>)

\* Map.prototype.get: the document's index, or undefined
mapGet(m, key) ==
    IF \E k \in 1..Len(m) : m[k][1] = key
    THEN m[CHOOSE k \in 1..Len(m) : m[k][1] = key][2]
    ELSE undefined

\* Array.from(docMap.values())
mapValues(m) == [k \in 1..Len(m) |-> m[k][2]]

\* documents.forEach(doc => { docMap.set(relativePath, doc); docMap.set(pathWithoutExt, doc) })
buildDocMap(docs) ==
    LET F[k \in 0..Len(docs)] ==
            IF k = 0 THEN <<>>
            ELSE mapSet(mapSet(F[k - 1], docs[k].relativePath, k),
                        stripMd(docs[k].relativePath), k)
    IN F[Len(docs)]

\* a faulty variant: the last key that contains the path
fuzzyMatchLast(path, m) ==
    LET hits == {k \in 1..Len(m) : endsWith(m[k][1], path) \/ includes(m[k][1], path)}
    IN IF hits = {} THEN undefined
       ELSE m[CHOOSE k \in hits : \A j \in hits : k >= j][2]

\* the fuzzy strategy: the first key, in insertion order, that contains the path
fuzzyMatch(path, m) ==
    LET hits == {k \in 1..Len(m) : endsWith(m[k][1], path) \/ includes(m[k][1], path)}
    IN IF hits = {} THEN undefined
       ELSE m[CHOOSE k \in hits : \A j \in hits : k <= j][2]

\* a faulty variant: the fuzzy strategy before the exact ones
findDocumentByPathFuzzyFirst(path, m) ==
    IF fuzzyMatch(path, m) # undefined THEN fuzzyMatch(path, m)
    ELSE mapGet(m, path)

findDocumentByPath(path, m) ==
    IF mapGet(m, path) # undefined THEN mapGet(m, path)
    ELSE IF mapGet(m, path \o ".md") # undefined THEN mapGet(m, path \o ".md")
    ELSE IF mapGet(m, stripMd(path)) # undefined THEN mapGet(m, stripMd(path))
    ELSE fuzzyMatch(path, m)

(***************************************************************************)
(* buildRelationshipIndex, one forEach iteration at a time.                *)
(***************************************************************************)
\* a faulty variant: the push without the includes() test before it
addDependentAlways(docs, i, t) ==
    LET rel == docs[t].relationships
        deps == IF Has(rel, "dependents") THEN rel.dependents ELSE <<>>
    IN [docs EXCEPT ![t].relationships =
            SetProp(rel, "dependents", Append(deps, docs[i].relativePath))]

\* the body of doc.internalLinks.forEach for one link of document i that
\* resolves to document t
addDependent(docs, i, t) ==
    LET rel == docs[t].relationships
        deps == IF Has(rel, "dependents") THEN rel.dependents ELSE <<>>
        deps2 == IF arrayIncludes(deps, docs[i].relativePath) THEN deps
                 ELSE Append(deps, docs[i].relativePath)
    IN [docs EXCEPT ![t].relationships = SetProp(rel, "dependents", deps2)]

\* doc.internalLinks?.forEach(linkedPath => ...) for document i
addDependents(docs, i, m) ==
    LET links == docs[i].internalLinks
        F[k \in 0..Len(links)] ==
            IF k = 0 THEN docs
            ELSE LET t == findDocumentByPath(links[k], m)
                 IN IF t = undefined THEN F[k - 1] ELSE addDependent(F[k - 1], i, t)
    IN F[Len(links)]

setupKeywords == <<"setup", "install", "configure", "getting started">>

\* a faulty variant: inference that does not look at the explicit list
noEdgesIgnored(rel, edge) == TRUE

\* !doc.relationships?.<edge>?.length
noEdges(rel, edge) == ~Has(rel, edge) \/ Len(rel[edge]) = 0

relativePaths(docs, targets) == [k \in 1..Len(targets) |-> docs[targets[k]].relativePath]

inferPrerequisites(docs, i, m) ==
    LET doc == docs[i]
        content == toLowerCase(doc.content)
        title == toLowerCase(doc.title)
        IsSetup(t) == /\ docs[t].category = doc.category
                      /\ docs[t].documentType = "setup-guide"
                      /\ docs[t].relativePath # doc.relativePath
        values == mapValues(m)
        setupDocs == SeqFilter(values, {k \in 1..Len(values) : IsSetup(values[k])})
    IN IF /\ \/ includes(content, "before")
             \/ includes(content, "first")
             \/ includes(content, "prerequisite")
          /\ ~\E k \in 1..Len(setupKeywords) : includes(title, setupKeywords[k])
          /\ Len(setupDocs) > 0
          /\ noEdges(doc.relationships, "prerequisites")
       THEN [docs EXCEPT ![i].relationships =
                SetProp(@, "prerequisites", relativePaths(docs, slice0(setupDocs, 2)))]
       ELSE docs

inferFollowUps(docs, i, m) ==
    LET doc == docs[i]
        title == toLowerCase(doc.title)
        IsFollowUp(t) == /\ docs[t].category = doc.category
                         /\ docs[t].documentType # "setup-guide"
                         /\ docs[t].relativePath # doc.relativePath
                         /\ \/ docs[t].documentType = "guide"
                            \/ docs[t].documentType = "testing"
        values == mapValues(m)
        followUpDocs == SeqFilter(values, {k \in 1..Len(values) : IsFollowUp(values[k])})
    IN IF /\ \/ doc.documentType = "setup-guide"
             \/ includes(title, "getting started")
          /\ Len(followUpDocs) > 0
          /\ noEdges(doc.relationships, "followUps")
       THEN [docs EXCEPT ![i].relationships =
                SetProp(@, "followUps", relativePaths(docs, slice0(followUpDocs, 3)))]
       ELSE docs

inferImplicitRelationships(docs, i, m) ==
    inferFollowUps(inferPrerequisites(docs, i, m), i, m)

\* the second forEach of buildRelationshipIndex from document i on
RECURSIVE buildFrom(_, _, _)
buildFrom(docs, i, m) ==
    IF i > Len(docs) THEN docs
    ELSE buildFrom(inferImplicitRelationships(addDependents(docs, i, m), i, m), i + 1, m)

\* buildRelationshipIndex(documents): the array as the call leaves it
buildRelationshipIndex(docs) == buildFrom(docs, 1, buildDocMap(docs))

(***************************************************************************)
(* resolveRelatedDocuments and the get_document handler.                   *)
(***************************************************************************)
createDocumentSummary(doc) ==
    [ path |-> doc.relativePath,
      title |-> doc.title,
      summary |-> doc.summary,
      documentType |-> doc.documentType,
      estimatedReadTime |-> doc.estimatedReadTime,
      category |-> doc.category ]

edgeTypes == {"prerequisites", "followUps", "seeAlso", "dependents"}

\* maxPerType: number = 3
defaultMaxPerType == 3

\* .slice(0, maxPerType).map(path => findDocumentByPath(path, docMap))
\*   .filter((d): d is Document => d !== null)
resolvedEdge(ids, m, maxPerType) ==
    LET found == [k \in 1..Len(slice0(ids, maxPerType)) |-> findDocumentByPath(ids[k], m)]
    IN SeqFilter(found, {k \in 1..Len(found) : found[k] # null})

\* the four "if (doc.relationships.<edge> && ...length > 0)" blocks, in order;
\* .map(d => createDocumentSummary(d)) reads d.relativePath, a TypeError when d
\* is undefined
resolveRelatedDocuments(doc, allDocuments, maxPerType) ==
    LET m == buildDocMap(allDocuments)
        rel == doc.relationships
        present == {e \in DOMAIN rel : Len(rel[e]) > 0}
        kept == [e \in present |-> resolvedEdge(rel[e], m, maxPerType)]
    IN IF \E e \in present : arrayIncludes(kept[e], undefined)
       THEN Throw("TypeError", "Cannot read properties of undefined")
       ELSE Return([e \in present |->
                [k \in 1..Len(kept[e]) |-> createDocumentSummary(allDocuments[kept[e][k]])]])

\* a faulty variant: the path compared without regard to the extension
findExactLoose(docs, path) ==
    {k \in 1..Len(docs) : stripMd(docs[k].relativePath) = stripMd(path)}

\* this.documents.find(d => d.relativePath === path): the indices that match,
\* of which find takes the first
findExact(docs, path) == {k \in 1..Len(docs) : docs[k].relativePath = path}

\* index.ts, case 'get_document'; args is request.params.arguments
getDocument(docs, args) ==
    LET include_related == IF Has(args, "include_related") THEN args.include_related ELSE FALSE
        hits == findExact(docs, args.path)
        doc == docs[CHOOSE k \in hits : \A j \in hits : k <= j]
        responseData ==
            [ path |-> doc.relativePath, title |-> doc.title, category |-> doc.category,
              summary |-> doc.summary, documentType |-> doc.documentType,
              keySections |-> doc.keySections,
              estimatedReadTime |-> doc.estimatedReadTime,
              lastModified |-> doc.lastModified, relationships |-> doc.relationships,
              internalLinks |-> doc.internalLinks,
              externalReferences |-> doc.externalReferences,
              frontmatter |-> doc.frontmatter, content |-> doc.content ]
        relatedDocs == resolveRelatedDocuments(doc, docs, defaultMaxPerType)
    IN IF hits = {} THEN Throw("Error", "Document not found: " \o args.path)
       ELSE IF ~include_related THEN Return(responseData)
       ELSE IF relatedDocs.kind = "throw" THEN relatedDocs
       ELSE IF DOMAIN relatedDocs.value # {}
            THEN Return(SetProp(responseData, "related_documents", relatedDocs.value))
            ELSE Return(responseData)

(***************************************************************************)
(* new RegExp(query, 'g') and String.prototype.match, for the patterns a   *)
(* query can spell with these characters: '.' (any character but a line    *)
(* terminator), the quantifiers '*' and '+' (greedy), '(' (which opens a   *)
(* group that nothing closes), and every other character standing for      *)
(* itself.  A pattern is a sequence of atoms [any, ch, min, many].         *)
(***************************************************************************)
Quantifiers == {"*", "+"}

\* the constructor throws a SyntaxError: an unterminated group, or a quantifier
\* with nothing to repeat
regExpInvalid(source) ==
    \/ includes(source, "(")
    \/ \E k \in 1..Len(source) :
         /\ CharAt(source, k) \in Quantifiers
         /\ (k = 1 \/ CharAt(source, k - 1) \in Quantifiers)

RECURSIVE regExpAtoms(_)
regExpAtoms(source) ==
    IF Len(source) = 0 THEN <<>>
    ELSE LET c == CharAt(source, 1)
             q == IF Len(source) >= 2 THEN CharAt(source, 2) ELSE ""
             quantified == q \in Quantifiers
             atom == [ any |-> c = ".", ch |-> c,
                       min |-> IF q = "*" THEN 0 ELSE 1,
                       many |-> quantified ]
         IN <<atom>> \o regExpAtoms(SubSeq(source, IF quantified THEN 3 ELSE 2, Len(source)))

NoMatch == -1

SetMax(S) == CHOOSE x \in S : \A y \in S : y <= x
SetMin(S) == CHOOSE x \in S : \A y \in S : x <= y

\* the index after the match of atoms k.. of the pattern that starts at index
\* pos of s (the one a backtracking matcher finds first), or NoMatch
RECURSIVE matchEnd(_, _, _, _)
matchEnd(atoms, k, s, pos) ==
    IF k > Len(atoms) THEN pos
    ELSE LET a == atoms[k]
             Fits(p) == /\ p <= Len(s)
                        /\ IF a.any THEN SubSeq(s, p, p) \notin {"\n", "\r"}
                           ELSE SubSeq(s, p, p) = a.ch
             run == SetMax({n \in 0..(Len(s) - pos + 1) : \A j \in 0..(n - 1) : Fits(pos + j)})
             ok == {n \in a.min..run : matchEnd(atoms, k + 1, s, pos + n) # NoMatch}
         IN IF ~a.many
            THEN IF Fits(pos) THEN matchEnd(atoms, k + 1, s, pos + 1) ELSE NoMatch
            ELSE IF ok = {} THEN NoMatch
            ELSE matchEnd(atoms, k + 1, s, pos + SetMax(ok))

\* (s.match(new RegExp(source, 'g')) || []).length: the matches are taken left
\* to right without overlap; after an empty match the scan moves on one index
RECURSIVE countMatchesFrom(_, _, _)
countMatchesFrom(atoms, s, from) ==
    LET e == matchEnd(atoms, 1, s, from)
    IN IF from > Len(s) + 1 THEN 0
       ELSE IF e = NoMatch THEN countMatchesFrom(atoms, s, from + 1)
       ELSE 1 + countMatchesFrom(atoms, s, IF e = from THEN e + 1 ELSE e)

countMatches(s, source) == countMatchesFrom(regExpAtoms(source), s, 1)

(***************************************************************************)
(* assessDocumentFreshness.                                                *)
(***************************************************************************)
outdatedMarkers ==
    <<"deprecated", "outdated", "no longer maintained", "archive", "legacy",
      "obsolete", "old version">>

WhiteSpace == {" ", "\t", "\n", "\r"}

\* the indices reachable from the indices in P by skipping \s*
skipSpaces(s, P) ==
    {q \in 1..(Len(s) + 1) :
        \E p \in P : p <= q /\ \A j \in p..(q - 1) : CharAt(s, j) \in WhiteSpace}

\* /<name>\s*(version)?\s*<lead>[0-<top>]/.test(s), digits being "0".."9"
versionPatternTest(s, name, lead, top) ==
    LET digits == "0123456789"
        afterName == {p + Len(name) : p \in {p \in 1..Len(s) : substr(s, p, Len(name)) = name}}
        sp1 == skipSpaces(s, afterName)
        opt == sp1 \cup {p + 7 : p \in {p \in sp1 : substr(s, p, 7) = "version"}}
        sp2 == skipSpaces(s, opt)
    IN \E p \in sp2 :
         /\ substr(s, p, Len(lead)) = lead
         /\ \E d \in 1..(top + 1) : CharAt(s, p + Len(lead)) = CharAt(digits, d)

\* oldVersionPatterns: Node 12 or older, Ruby 2.5 or older, React 15 or older
oldVersionPatterns ==
    << [name |-> "node", lead |-> "1", top |-> 2],
       [name |-> "ruby", lead |-> "2.", top |-> 5],
       [name |-> "react", lead |-> "1", top |-> 5] >>

\* daysSinceModified > 365
maxFreshDays == 365

\* a faulty variant: the age test alone
freshnessReasonsAgeOnly(doc) ==
    IF doc.lastModified # NoTimestamp /\ doc.lastModified > maxFreshDays
    THEN <<"Document is over 1 year old">> ELSE <<>>

\* the reasons array assessDocumentFreshness collects, in order
freshnessReasons(doc) ==
    LET contentLower == toLowerCase(doc.content)
        age == IF doc.lastModified # NoTimestamp /\ doc.lastModified > maxFreshDays
               THEN <<"Document is over 1 year old">> ELSE <<>>
        markers == SeqFilter(outdatedMarkers,
                             {k \in 1..Len(outdatedMarkers) :
                                  includes(contentLower, outdatedMarkers[k])})
        Matches(p) == versionPatternTest(contentLower, p.name, p.lead, p.top)
        versions == SeqFilter(oldVersionPatterns,
                              {k \in 1..Len(oldVersionPatterns) :
                                   Matches(oldVersionPatterns[k])})
    IN age
       \o [k \in 1..Len(markers) |-> "Contains \"" \o markers[k] \o "\" marker"]
       \o [k \in 1..Len(versions) |-> "References outdated software versions"]

assessDocumentFreshness(doc) ==
    LET reasons == freshnessReasons(doc)
    IN IF Len(reasons) > 0
       THEN [isOutdated |-> TRUE, reasons |-> reasons]
       ELSE [isOutdated |-> FALSE]

(***************************************************************************)
(* extractExplicitRelationships and extractListItems.  Each of the three   *)
(* patterns is a header, an optional colon, white space up to a newline,   *)
(* then the lines that start with "- "; flags g and i.  A header is a name *)
(* as the pattern spells it: pre, at most gap characters of any kind (the  *)
(* ".?" of follow.?up), post.                                              *)
(***************************************************************************)
LineTerminators == {"\n", "\r"}

Header(pre, gap, post) == [pre |-> pre, gap |-> gap, post |-> post]

prereqHeaders ==
    { Header("prerequisites", 0, ""), Header("prerequisite", 0, ""),
      Header("prereqs", 0, ""), Header("prereq", 0, "") }

seeAlsoHeaders == { Header("see also", 0, ""), Header("related", 0, "") }

nextHeaders == { Header("next", 0, ""), Header("follow", 1, "up") }

\* the indices after header h when it starts at index i of lower
headerEnds(lower, i, h) ==
    {i + Len(h.pre) + g + Len(h.post) : g \in
        {g \in 0..h.gap :
            /\ substr(lower, i, Len(h.pre)) = h.pre
            /\ \A j \in 0..(g - 1) :
                   /\ i + Len(h.pre) + j <= Len(lower)
                   /\ CharAt(lower, i + Len(h.pre) + j) \notin LineTerminators
            /\ substr(lower, i + Len(h.pre) + g, Len(h.post)) = h.post}}

\* the optional colon and the white space up to a newline, from index c: the index of the "\n" it ends at, \s* being greedy,
\* or NoMatch
spacesThenNewline(s, c) ==
    LET from == IF CharAt(s, c) = ":" THEN c + 1 ELSE c
        ends == {q \in from..Len(s) :
                    /\ CharAt(s, q) = "\n"
                    /\ \A j \in from..q : CharAt(s, j) \in WhiteSpace}
    IN IF ends = {} THEN NoMatch ELSE SetMax(ends)

\* the index of the first line terminator at or after p, or Len(s) + 1
lineEnd(s, p) ==
    SetMin({q \in p..(Len(s) + 1) : q = Len(s) + 1 \/ CharAt(s, q) \in LineTerminators})

\* the item lines from index p on: the index after the last of them
RECURSIVE itemsEnd(_, _)
itemsEnd(s, p) ==
    IF p + 1 <= Len(s) /\ substr(s, p, 2) = "- "
    THEN LET e == lineEnd(s, p + 2)
         IN itemsEnd(s, IF CharAt(s, e) = "\n" THEN e + 1 ELSE e)
    ELSE p

\* content.match(pattern): <<>> for null, else the array of matches, of which
\* only the first, the one the code reads, is computed
sectionMatch(content, headers) ==
    LET lower == toLowerCase(content)
        NewlineAt(i) ==
            {spacesThenNewline(content, c) :
                c \in UNION {headerEnds(lower, i, h) : h \in headers}} \ {NoMatch}
        starts == {i \in 1..Len(content) : NewlineAt(i) # {}}
        i0 == SetMin(starts)
    IN IF starts = {} THEN <<>>
       ELSE <<SubSeq(content, i0, itemsEnd(content, SetMax(NewlineAt(i0)) + 1) - 1)>>

\* String.prototype.trim
RECURSIVE trim(_)
trim(s) ==
    IF Len(s) = 0 THEN s
    ELSE IF CharAt(s, 1) \in WhiteSpace THEN trim(SubSeq(s, 2, Len(s)))
    ELSE IF CharAt(s, Len(s)) \in WhiteSpace THEN trim(SubSeq(s, 1, Len(s) - 1))
    ELSE s

\* text.match(/- (.+)/g) from index p, each item without its "- " and trimmed
RECURSIVE listItemsFrom(_, _)
listItemsFrom(text, p) ==
    IF p > Len(text) THEN <<>>
    ELSE IF /\ substr(text, p, 2) = "- "
            /\ p + 2 <= Len(text)
            /\ CharAt(text, p + 2) \notin LineTerminators
         THEN <<trim(SubSeq(text, p + 2, lineEnd(text, p + 2) - 1))>>
              \o listItemsFrom(text, lineEnd(text, p + 2))
         ELSE listItemsFrom(text, p + 1)

extractListItems(text) == listItemsFrom(text, 1)

\* one "if (matches) relationships.<edge> = extractListItems(matches[0])"
extractedEdge(content, edge, headers) ==
    LET matches == sectionMatch(content, headers)
    IN IF matches = <<>> THEN EmptyObject
       ELSE edge :> extractListItems(matches[1])

extractExplicitRelationships(content) ==
    extractedEdge(content, "prerequisites", prereqHeaders)
    @@ extractedEdge(content, "seeAlso", seeAlsoHeaders)
    @@ extractedEdge(content, "followUps", nextHeaders)

(***************************************************************************)
(* calculateRelevanceScore and getContextualRelevance.                     *)
(***************************************************************************)
getContextualRelevance(doc, context) ==
    LET contextLower == toLowerCase(context)
        titleLower == toLowerCase(doc.title)
        contentLower == toLowerCase(doc.content)
        In(s, t) == includes(s, t)
        Pts(cond, n) == IF cond THEN n ELSE 0
    IN  (IF In(contextLower, "new developer") \/ In(contextLower, "getting started")
         THEN Pts(doc.documentType = "setup-guide", 30)
              + Pts(doc.documentType = "guide", 20)
              + Pts(In(titleLower, "setup") \/ In(titleLower, "getting started"), 25)
              + Pts(In(titleLower, "introduction") \/ In(titleLower, "overview"), 15)
         ELSE 0)
      + (IF In(contextLower, "api") \/ In(contextLower, "integration")
         THEN Pts(doc.documentType = "api-docs", 30)
              + Pts(In(titleLower, "api") \/ In(titleLower, "endpoint"), 25)
              + Pts(In(titleLower, "integration") \/ In(titleLower, "contract"), 20)
         ELSE 0)
      + (IF \/ In(contextLower, "troubleshoot")
            \/ In(contextLower, "debug")
            \/ In(contextLower, "error")
         THEN Pts(doc.documentType = "testing", 20)
              + Pts(In(titleLower, "troubleshoot") \/ In(titleLower, "error"), 25)
              + Pts(In(titleLower, "debug") \/ In(titleLower, "fix"), 20)
              + Pts(In(contentLower, "common issues") \/ In(contentLower, "known issues"), 15)
         ELSE 0)
      + (IF In(contextLower, "deploy") \/ In(contextLower, "release")
         THEN Pts(In(titleLower, "deploy") \/ In(titleLower, "release"), 25)
              + Pts(In(titleLower, "ci/cd") \/ In(titleLower, "pipeline"), 20)
         ELSE 0)

\* a faulty variant: the title compared as written, not lower-cased
titleScoreCaseSensitive(doc, query) ==
    IF includes(doc.title, query)
    THEN 100 + (IF doc.title = query THEN 50 ELSE 0)
    ELSE 0

\* lines 167-174: the title match and the exact-title bonus
titleScore(doc, query) ==
    LET lowerTitle == toLowerCase(doc.title)
    IN IF includes(lowerTitle, query)
       THEN 100 + (IF lowerTitle = query THEN 50 ELSE 0)
       ELSE 0

\* lines 176-179
summaryScore(doc, query) ==
    IF includes(toLowerCase(doc.summary), query) THEN 50 ELSE 0

\* lines 181-183, when the RegExp constructor does not throw
contentScore(doc, query) == countMatches(toLowerCase(doc.content), query) * 5

\* lines 190-196
typeScore(doc) == IF doc.documentType \in {"guide", "setup-guide"} THEN 10 ELSE 0

\* lines 198-204; doc.lastModified is the age in days
freshnessBonus(doc) ==
    IF doc.lastModified = NoTimestamp THEN 0
    ELSE IF doc.lastModified < 30 THEN 20
    ELSE IF doc.lastModified < 90 THEN 10
    ELSE IF doc.lastModified < 180 THEN 5
    ELSE 0

\* options.context is passed on as it is; "if (context)" is false for undefined
\* and for the empty string
contextScore(doc, options) ==
    IF Has(options, "context") /\ options.context # ""
    THEN getContextualRelevance(doc, options.context)
    ELSE 0

\* calculateRelevanceScore(doc, query, options.context): a number, or the
\* SyntaxError of new RegExp(query, 'g')
calculateRelevanceScore(doc, query, options) ==
    IF regExpInvalid(query)
    THEN Throw("SyntaxError", "Invalid regular expression")
    ELSE Return(titleScore(doc, query)
                + summaryScore(doc, query)
                + contentScore(doc, query)
                + contextScore(doc, options)
                + typeScore(doc)
                + freshnessBonus(doc))

(***************************************************************************)
(* searchDocuments and the search_docs handler.                            *)
(***************************************************************************)
\* JSON.stringify(doc.frontmatter) for a mapping of strings to strings, given
\* as its <<key, value>> entries in order
RECURSIVE jsonEntries(_)
jsonEntries(entries) ==
    IF Len(entries) = 0 THEN ""
    ELSE "\"" \o entries[1][1] \o "\":\"" \o entries[1][2] \o "\""
         \o (IF Len(entries) > 1 THEN "," ELSE "")
         \o jsonEntries(Tail(entries))

jsonStringify(frontmatter) == "{" \o jsonEntries(frontmatter) \o "}"

\* a faulty variant: the query as a ranking signal only, not as a filter
matchesQuerySoft(doc, lowerQuery) == TRUE

\* lines 135-142
matchesQuery(doc, lowerQuery) ==
    LET searchText == toLowerCase(doc.title \o " " \o doc.content \o " "
                                  \o jsonStringify(doc.frontmatter))
    IN includes(searchText, lowerQuery)

\* a faulty variant: the freshness test skipped
excludedAsOutdatedNever(doc, options) == FALSE

\* lines 127-133
excludedAsOutdated(doc, options) ==
    /\ Has(options, "excludeOutdated")
    /\ options.excludeOutdated
    /\ assessDocumentFreshness(doc).isOutdated

\* the filter callback, lines 114-143
passesFilter(doc, lowerQuery, options) ==
    /\ ~(Has(options, "category") /\ options.category # "" /\ doc.category # options.category)
    /\ ~(/\ Has(options, "documentTypes")
         /\ Len(options.documentTypes) > 0
         /\ ~arrayIncludes(options.documentTypes, doc.documentType))
    /\ ~excludedAsOutdated(doc, options)
    /\ matchesQuery(doc, lowerQuery)

\* a faulty variant: an element goes before the elements of equal score
insertByScoreBeforeTies(sorted, x, score) ==
    LET before == {k \in 1..Len(sorted) : score[sorted[k]] > score[x]}
        n == Cardinality(before)
    IN SubSeq(sorted, 1, n) \o <<x>> \o SubSeq(sorted, n + 1, Len(sorted))

\* Array.prototype.sort with (a, b) => bScore - aScore is stable: an element
\* goes after the elements of greater or equal score that precede it
insertByScore(sorted, x, score) ==
    LET before == {k \in 1..Len(sorted) : score[sorted[k]] >= score[x]}
        n == Cardinality(before)
    IN SubSeq(sorted, 1, n) \o <<x>> \o SubSeq(sorted, n + 1, Len(sorted))

RECURSIVE sortFirst(_, _, _)
sortFirst(results, n, score) ==
    IF n = 0 THEN <<>>
    ELSE insertByScore(sortFirst(results, n - 1, score), results[n], score)

sortByScore(results, score) == sortFirst(results, Len(results), score)

\* the scores of all documents, each computed once
RECURSIVE scoresFirst(_, _, _, _)
scoresFirst(docs, n, lowerQuery, options) ==
    IF n = 0 THEN <<>>
    ELSE Append(scoresFirst(docs, n - 1, lowerQuery, options),
                calculateRelevanceScore(docs[n], lowerQuery, options).value)

\* a faulty variant: the limit ignored
applyLimitNever(results, options) == results

\* a faulty variant: "if (options.limit !== undefined)", which truncates to
\* nothing when the limit is 0
applyLimitWhenPresent(results, options) ==
    IF Has(options, "limit") THEN slice0(results, options.limit) ELSE results

\* lines 154-157: "if (options.limit)" is false for undefined and for 0
applyLimit(results, options) ==
    IF Has(options, "limit") /\ options.limit # 0
    THEN slice0(results, options.limit)
    ELSE results

\* the documents that pass the filter, as indices in corpus order
RECURSIVE filterFirst(_, _, _, _)
filterFirst(docs, n, lowerQuery, options) ==
    IF n = 0 THEN <<>>
    ELSE IF passesFilter(docs[n], lowerQuery, options)
         THEN Append(filterFirst(docs, n - 1, lowerQuery, options), n)
         ELSE filterFirst(docs, n - 1, lowerQuery, options)

filtered(docs, lowerQuery, options) == filterFirst(docs, Len(docs), lowerQuery, options)

\* searchDocuments(documents, query, options): the documents found, as indices,
\* or the error the comparator throws; sort calls the comparator only when
\* there are two elements or more
searchDocuments(docs, query, options) ==
    LET lowerQuery == toLowerCase(query)
        results == filtered(docs, lowerQuery, options)
    IN IF Len(results) >= 2 /\ regExpInvalid(lowerQuery)
       THEN calculateRelevanceScore(docs[results[1]], lowerQuery, options)
       ELSE IF Len(results) < 2 THEN Return(applyLimit(results, options))
       ELSE Return(applyLimit(
                sortByScore(results, scoresFirst(docs, Len(docs), lowerQuery, options)),
                options))

\* limit = 10
defaultLimit == 10

\* index.ts, case 'search_docs': the arguments become the options; a property
\* whose value is undefined is an absent one.  The response lists the documents
\* found (each rendered from documents[k]) and their count.
searchDocs(docs, args) ==
    LET passed == {"category", "context"} \cap DOMAIN args
        options ==
            [k \in passed |-> args[k]]
            @@ (IF Has(args, "document_types")
                THEN [documentTypes |-> args.document_types] ELSE EmptyObject)
            @@ [ limit |-> IF Has(args, "limit") THEN args.limit ELSE defaultLimit,
                 excludeOutdated |-> IF Has(args, "exclude_outdated")
                                     THEN args.exclude_outdated ELSE FALSE ]
        results == searchDocuments(docs, args.query, options)
    IN IF results.kind = "throw" THEN results
       ELSE Return([query |-> args.query, count |-> Len(results.value),
                    results |-> results.value])

(***************************************************************************)
(* The list_categories handler and the dispatch on the tool's name.        *)
(***************************************************************************)
\* the characters of the model's strings in the order of their code units
CodeUnits == " !\"()*+-./0123456789:?ABCDEFGHIJKLMNOPQRSTUVWXYZ_abcdefghijklmnopqrstuvwxyz"

codeUnit(c) == CHOOSE k \in 1..Len(CodeUnits) : SubSeq(CodeUnits, k, k) = c

\* a < b as Array.prototype.sort compares strings by default
RECURSIVE stringLess(_, _)
stringLess(a, b) ==
    IF Len(b) = 0 THEN FALSE
    ELSE IF Len(a) = 0 THEN TRUE
    ELSE IF CharAt(a, 1) # CharAt(b, 1)
         THEN codeUnit(CharAt(a, 1)) < codeUnit(CharAt(b, 1))
         ELSE stringLess(SubSeq(a, 2, Len(a)), SubSeq(b, 2, Len(b)))

\* Array.from(set).sort() for a set of strings
RECURSIVE sortedStrings(_)
sortedStrings(S) ==
    IF S = {} THEN <<>>
    ELSE LET least == CHOOSE x \in S : \A y \in S \ {x} : stringLess(x, y)
         IN <<least>> \o sortedStrings(S \ {least})

\* index.ts, case 'list_categories'
listCategories(docs) ==
    Return([categories |->
        sortedStrings({docs[k].category : k \in {k \in 1..Len(docs) : docs[k].category # ""}})])

\* the switch on request.params.name
callTool(docs, tool) ==
    IF tool.name = "search_docs" THEN searchDocs(docs, tool.arguments)
    ELSE IF tool.name = "get_document" THEN getDocument(docs, tool.arguments)
    ELSE IF tool.name = "list_categories" THEN listCategories(docs)
    ELSE Throw("Error", "Unknown tool: " \o tool.name)

(***************************************************************************)
(* The graph specification: a corpus as parseDocument hands it over, then  *)
(* buildRelationshipIndex step by step, then calls that read the graph.    *)
(*                                                                         *)
(* A corpus is up to MaxDocs files with distinct paths, in any order.      *)
(* Each file has a kind (type, title, prose) and the links and explicit    *)
(* relationship lists extracted from it.  "zz" names no file.              *)
(***************************************************************************)
GraphPaths == {"s/a.md", "s/b.md", "t/a.md"}

GraphKinds ==
    { [documentType |-> "guide", title |-> "Guide", content |-> "x"],
      [documentType |-> "testing", title |-> "T", content |-> "Do this First"],
      [documentType |-> "setup-guide", title |-> "Setup", content |-> "before"],
      [documentType |-> "setup-guide", title |-> "Getting Started", content |-> "x"] }

GraphEdges ==
    { [internalLinks |-> <<>>, relationships |-> EmptyObject],
      [internalLinks |-> <<"s/a", "a.md", "zz">>,
       relationships |-> [prerequisites |-> <<"zz">>, seeAlso |-> <<"s/a", "b">>]],
      [internalLinks |-> <<"b", "s/b">>,
       relationships |-> [prerequisites |-> <<>>, followUps |-> <<"s/b.md">>]] }

GraphDocument(path, kind, edges) ==
    Document(path, kind.title, kind.content, <<>>, kind.documentType, "summary", NoTimestamp, edges.internalLinks, edges.relationships)

GraphCorpora ==
    UNION { { [k \in 1..n |-> GraphDocument(p[k], kd[k], ed[k])] :
                p \in {q \in [1..n -> GraphPaths] : \A i, j \in 1..n : q[i] = q[j] => i = j},
                kd \in [1..n -> GraphKinds],
                ed \in [1..n -> GraphEdges] } : n \in 0..MaxDocs }

NoCall == [op |-> "none"]
NoResponse == [kind |-> "none"]

\* no server in this specification
ServerIdle ==
    /\ documentsLoaded = FALSE
    /\ loads = 0
    /\ handlers = <<>>

InitGraph ==
    /\ parsed \in GraphCorpora
    /\ documents = parsed
    /\ docMap = <<>>
    /\ pc = "docMap"
    /\ idx = 0
    /\ request = NoCall
    /\ response = NoResponse
    /\ ServerIdle

\* buildRelationshipIndex, lines 477-483
BuildDocMap ==
    /\ pc = "docMap"
    /\ docMap' = buildDocMap(documents)
    /\ idx' = 1
    /\ pc' = IF Len(documents) = 0 THEN "ready" ELSE "links"
    /\ UNCHANGED <<parsed, documents, request, response>>
    /\ UNCHANGED serverVars

\* one iteration of the second forEach, first half: lines 487-507
AddDependents ==
    /\ pc = "links"
    /\ documents' = addDependents(documents, idx, docMap)
    /\ pc' = "infer"
    /\ UNCHANGED <<parsed, docMap, idx, request, response>>
    /\ UNCHANGED serverVars

\* one iteration of the second forEach, second half: line 510
InferRelationships ==
    /\ pc = "infer"
    /\ documents' = inferImplicitRelationships(documents, idx, docMap)
    /\ idx' = idx + 1
    /\ pc' = IF idx = Len(documents) THEN "ready" ELSE "links"
    /\ UNCHANGED <<parsed, docMap, request, response>>
    /\ UNCHANGED serverVars

\* the caps a caller passes: an explicit positive number, or none (the default)
Caps == 1..MaxCap \cup {defaultMaxPerType}

\* a call of resolveRelatedDocuments(documents[i], documents, cap) on the built
\* corpus; a behaviour makes one call, and every call is made in some behaviour
ResolveRelated ==
    /\ pc = "ready"
    /\ \E i \in 1..Len(documents), cap \in Caps :
         /\ request' = [op |-> "resolveRelatedDocuments", doc |-> i, maxPerType |-> cap]
         /\ response' = resolveRelatedDocuments(documents[i], documents, cap)
    /\ pc' = "done"
    /\ UNCHANGED <<parsed, documents, docMap, idx>>
    /\ UNCHANGED serverVars

GetDocumentArgs ==
    { [path |-> p] : p \in GraphPaths \cup {"s/a"} }
    \cup { [path |-> p, include_related |-> b] : p \in GraphPaths \cup {"s/a"}, b \in BOOLEAN }

\* a get_document request on the built corpus
GetDocument ==
    /\ pc = "ready"
    /\ \E args \in GetDocumentArgs :
         /\ request' = [op |-> "get_document", arguments |-> args]
         /\ response' = getDocument(documents, args)
    /\ pc' = "done"
    /\ UNCHANGED <<parsed, documents, docMap, idx>>
    /\ UNCHANGED serverVars

NextGraph ==
    \/ BuildDocMap
    \/ AddDependents
    \/ InferRelationships
    \/ ResolveRelated
    \/ GetDocument

SpecGraph == InitGraph /\ [][NextGraph]_vars

(***************************************************************************)
(* The search specification: a corpus, then one call of searchDocuments or *)
(* one search_docs request.                                                *)
(*                                                                         *)
(* A corpus is up to MaxDocs documents, each a setting (title, type,      *)
(* directory, front matter) and a body (content, summary, age); or the     *)
(* corpus of defaultLimit + 1 documents that all contain "ab".             *)
(***************************************************************************)
SearchSettings ==
    { [title |-> "Ab", documentType |-> "guide", dir |-> "s", frontmatter |-> <<>>],
      [title |-> "x", documentType |-> "api-docs", dir |-> "t",
       frontmatter |-> << <<"tag", "ab">> >>] }

SearchBodies ==
    { [content |-> "ab a.b axb", summary |-> "ab", lastModified |-> 10],
      [content |-> "Deprecated (", summary |-> "x", lastModified |-> 400] }

SearchDocument(k, setting, body) ==
    Document(setting.dir \o "/d" \o ToString(k) \o ".md", setting.title, body.content, setting.frontmatter, setting.documentType, body.summary, body.lastModified, <<>>, EmptyObject)

SmallCorpora ==
    UNION { { [k \in 1..n |-> SearchDocument(k, st[k], b[k])] :
                st \in [1..n -> SearchSettings],
                b \in [1..n -> SearchBodies] } : n \in 0..MaxDocs }

LargeCorpus ==
    [k \in 1..(defaultLimit + 1) |->
        SearchDocument(k,
            [title |-> IF k % 3 = 0 THEN "Ab" ELSE "x",
             documentType |-> IF k % 2 = 0 THEN "guide" ELSE "api-docs",
             dir |-> IF k % 2 = 0 THEN "s" ELSE "t",
             frontmatter |-> <<>>],
            [content |-> "ab a.b axb", summary |-> "ab", lastModified |-> 10])]

SearchCorpora == SmallCorpora \cup {LargeCorpus}

Queries == {"Ab", "a.", "("}

\* the objects with the property key absent, or present with a value of values
Optional(key, values) == {EmptyObject} \cup {key :> v : v \in values}

SearchOptions ==
    { a @@ b @@ c @@ d @@ e :
        a \in Optional("category", {"s"}),
        b \in Optional("limit", 0..MaxLimit),
        c \in Optional("context", {"New Developer"}),
        d \in Optional("documentTypes", {<<>>, <<"guide">>}),
        e \in Optional("excludeOutdated", BOOLEAN) }

SearchDocsArgs ==
    { [query |-> q] @@ a @@ b @@ c :
        q \in Queries,
        a \in Optional("limit", 0..MaxLimit),
        b \in Optional("document_types", {<<"guide">>}),
        c \in Optional("exclude_outdated", {TRUE}) }

InitSearch ==
    /\ parsed \in SearchCorpora
    /\ documents = parsed
    /\ docMap = <<>>
    /\ pc = "ready"
    /\ idx = 0
    /\ request = NoCall
    /\ response = NoResponse
    /\ ServerIdle

\* a call of searchDocuments(documents, query, options)
SearchDocuments ==
    /\ pc = "ready"
    /\ \E query \in Queries, options \in SearchOptions :
         /\ request' = [op |-> "searchDocuments", query |-> query, options |-> options]
         /\ response' = searchDocuments(documents, query, options)
    /\ pc' = "done"
    /\ UNCHANGED <<parsed, documents, docMap, idx>>
    /\ UNCHANGED serverVars

\* a search_docs request
SearchDocs ==
    /\ pc = "ready"
    /\ \E args \in SearchDocsArgs :
         /\ request' = [op |-> "search_docs", arguments |-> args]
         /\ response' = searchDocs(documents, args)
    /\ pc' = "done"
    /\ UNCHANGED <<parsed, documents, docMap, idx>>
    /\ UNCHANGED serverVars

NextSearch ==
    \/ SearchDocuments
    \/ SearchDocs

SpecSearch == InitSearch /\ [][NextSearch]_vars

(***************************************************************************)
(* The scoring specification: two documents that differ in their title at  *)
(* most, then the two calls of calculateRelevanceScore the comparator of   *)
(* searchDocuments makes for them, line 146-150: the query lower-cased,    *)
(* the context as the request gives it.                                    *)
(***************************************************************************)
ScoreTitles == {"Ab", "AB x", "x", "Setup", "b"}

ScoreBodies ==
    { [content |-> "ab a.b axb", summary |-> "ab", documentType |-> "guide"],
      [content |-> "x", summary |-> "x", documentType |-> "api-docs"] }

ScoreAges == {NoTimestamp, 10, 100, 400}

ScoreQueries == {"Ab", "x", "setup", "a.", "("}

ScoreOptions == Optional("context", {"", "New Developer", "api"})

ScoreDocument(k, title, body, age) ==
    Document("s/d" \o ToString(k) \o ".md", title, body.content, <<>>, body.documentType, body.summary, age, <<>>, EmptyObject)

InitScore ==
    /\ \E t1 \in ScoreTitles, t2 \in ScoreTitles, body \in ScoreBodies, age \in ScoreAges :
         parsed = <<ScoreDocument(1, t1, body, age), ScoreDocument(2, t2, body, age)>>
    /\ documents = parsed
    /\ docMap = <<>>
    /\ pc = "ready"
    /\ idx = 0
    /\ request = NoCall
    /\ response = NoResponse
    /\ ServerIdle

\* const aScore = calculateRelevanceScore(a, lowerQuery, options.context);
\* const bScore = calculateRelevanceScore(b, lowerQuery, options.context);
Score ==
    /\ pc = "ready"
    /\ \E query \in ScoreQueries, options \in ScoreOptions :
         /\ request' = [op |-> "calculateRelevanceScore", query |-> query, options |-> options]
         /\ response' = [k \in 1..2 |->
                calculateRelevanceScore(documents[k], toLowerCase(query), options)]
    /\ pc' = "done"
    /\ UNCHANGED <<parsed, documents, docMap, idx>>
    /\ UNCHANGED serverVars

NextScore == Score

SpecScore == InitScore /\ [][NextScore]_vars

(***************************************************************************)
(* The resolution specification: a corpus, the docMap built from it, then  *)
(* findDocumentByPath called twice with one raw string, as the second      *)
(* forEach of buildRelationshipIndex calls it for the links of a document. *)
(* "a.md.md" is a file whose name without the extension still ends in .md. *)
(***************************************************************************)
ResolvePaths == {"s/a.md", "s/ab.md", "t/a.md", "a.md.md"}

RawPaths == {"s/a", "s/a.md", "t/a", "a", "ab", "b.md", "a.md.md.md", "zz"}

ResolveDocument(path) ==
    Document(path, "T", "x", <<>>, "guide", "summary", NoTimestamp, <<>>, EmptyObject)

ResolveCorpora ==
    UNION { { [k \in 1..n |-> ResolveDocument(p[k])] :
                p \in {q \in [1..n -> ResolvePaths] : \A i, j \in 1..n : q[i] = q[j] => i = j} } :
            n \in 0..MaxDocs }

InitResolve ==
    /\ parsed \in ResolveCorpora
    /\ documents = parsed
    /\ docMap = <<>>
    /\ pc = "docMap"
    /\ idx = 0
    /\ request = NoCall
    /\ response = NoResponse
    /\ ServerIdle

\* const linkedDoc = findDocumentByPath(linkedPath, docMap), line 493
FindDocument ==
    /\ pc = "links"
    /\ \E path \in RawPaths :
         /\ request' = [op |-> "findDocumentByPath", path |-> path]
         /\ response' = Return(findDocumentByPath(path, docMap))
    /\ pc' = "found"
    /\ UNCHANGED <<parsed, documents, docMap, idx>>
    /\ UNCHANGED serverVars

\* the same call once more, on the same docMap
FindDocumentAgain ==
    /\ pc = "found"
    /\ response' = [kind |-> "return", first |-> response.value,
                    value |-> findDocumentByPath(request.path, docMap)]
    /\ pc' = "done"
    /\ UNCHANGED <<parsed, documents, docMap, idx, request>>
    /\ UNCHANGED serverVars

NextResolve ==
    \/ BuildDocMap
    \/ FindDocument
    \/ FindDocumentAgain

SpecResolve == InitResolve /\ [][NextResolve]_vars

(***************************************************************************)
(* The freshness specification: one document, a content and an age in      *)
(* days (or no timestamp), then one call of assessDocumentFreshness.       *)
(***************************************************************************)
FreshContents ==
    { "x", "This is Deprecated", "see the archived page", "Node 12",
      "node version 10", "Node 14", "Node 8", "ruby 2.5", "Ruby 2.7", "react 15",
      "React 16", "nodeversion11", "node v12", "Legacy Node 12" }

FreshAges == {NoTimestamp, 10, 365, 366}

InitFresh ==
    /\ \E content \in FreshContents, age \in FreshAges :
         parsed = << Document("s/d.md", "T", content, <<>>, "guide", "summary", age, <<>>, EmptyObject) >>
    /\ documents = parsed
    /\ docMap = <<>>
    /\ pc = "ready"
    /\ idx = 0
    /\ request = NoCall
    /\ response = NoResponse
    /\ ServerIdle

\* const freshnessCheck = assessDocumentFreshness(doc), line 129
AssessFreshness ==
    /\ pc = "ready"
    /\ request' = [op |-> "assessDocumentFreshness", doc |-> 1]
    /\ response' = Return(assessDocumentFreshness(documents[1]))
    /\ pc' = "done"
    /\ UNCHANGED <<parsed, documents, docMap, idx>>
    /\ UNCHANGED serverVars

NextFresh == AssessFreshness

SpecFresh == InitFresh /\ [][NextFresh]_vars

(***************************************************************************)
(* The parsing specification: the files setup/README.md (a setup guide     *)
(* titled "Getting Started") and setup/guide.md (a guide), in either       *)
(* order, each with a content; parseDocument extracts the explicit         *)
(* relationships, then buildRelationshipIndex runs.  No content has a      *)
(* markdown link, so internalLinks is empty.                               *)
(***************************************************************************)
ReadmeContents == {"x", "Follow-up:\n- other", "Prerequisites:\n- a\n"}

GuideContents ==
    { "see also: - setup/README", "see also:\n- setup/README",
      "See also:\n- setup/README\n- x\n", "Related\n\n- setup/README\ntext",
      "x", "next:\n- a" }

ParseFiles ==
    UNION { { << Document("setup/README.md", "Getting Started", r, <<>>, "setup-guide", "summary", NoTimestamp, <<>>, EmptyObject),
                 Document("setup/guide.md", "Guide", g, <<>>, "guide", "summary", NoTimestamp, <<>>, EmptyObject) >>,
              << Document("setup/guide.md", "Guide", g, <<>>, "guide", "summary", NoTimestamp, <<>>, EmptyObject),
                 Document("setup/README.md", "Getting Started", r, <<>>, "setup-guide", "summary", NoTimestamp, <<>>, EmptyObject) >> } :
            r \in ReadmeContents, g \in GuideContents }

InitParse ==
    /\ parsed \in ParseFiles
    /\ documents = parsed
    /\ docMap = <<>>
    /\ pc = "parse"
    /\ idx = 0
    /\ request = NoCall
    /\ response = NoResponse
    /\ ServerIdle

\* parseDocument for every file: relationships: explicitRelationships
ParseDocuments ==
    /\ pc = "parse"
    /\ documents' = [k \in 1..Len(documents) |->
            [documents[k] EXCEPT
                !.relationships = extractExplicitRelationships(documents[k].content)]]
    /\ parsed' = documents'
    /\ pc' = "docMap"
    /\ UNCHANGED <<docMap, idx, request, response>>
    /\ UNCHANGED serverVars

NextParse ==
    \/ ParseDocuments
    \/ BuildDocMap
    \/ AddDependents
    \/ InferRelationships

SpecParse == InitParse /\ [][NextParse]_vars

(***************************************************************************)
(* The inference specification: corpora of a few files, among them         *)
(* files whose names shadow each other in docMap ("s/a.md.md" is indexed   *)
(* under "s/a.md.md" and "s/a.md", the keys of two other files), built     *)
(* step by step and then built a second time.                              *)
(***************************************************************************)
InferPathLists ==
    { <<"s/a.md", "s/b.md", "s/c.md">>,
      <<"s/a.md", "t/b.md", "s/c.md">>,
      <<"s/a.md.md", "s/a.md", "s/a.md.md.md">> }

InferKinds ==
    { [documentType |-> "guide", title |-> "Guide", content |-> "x"],
      [documentType |-> "testing", title |-> "T", content |-> "Do this First"],
      [documentType |-> "setup-guide", title |-> "Setup", content |-> "before"],
      [documentType |-> "guide", title |-> "Getting Started", content |-> "a prerequisite"] }

InferEdges ==
    { [internalLinks |-> <<>>, relationships |-> EmptyObject],
      [internalLinks |-> <<"s/a", "c.md">>,
       relationships |-> [prerequisites |-> <<"zz">>, followUps |-> <<>>]],
      [internalLinks |-> <<"s/b">>,
       relationships |-> [prerequisites |-> <<>>, followUps |-> <<"s/b.md">>]] }

InferCorpora ==
    UNION { { [k \in 1..Len(p) |-> GraphDocument(p[k], kd[k], ed[k])] :
                kd \in [1..Len(p) -> InferKinds],
                ed \in [1..Len(p) -> InferEdges] } :
            p \in UNION { {SubSeq(q, 1, n) : n \in 0..Len(q)} : q \in InferPathLists } }

InitInfer ==
    /\ parsed \in InferCorpora
    /\ documents = parsed
    /\ docMap = <<>>
    /\ pc = "docMap"
    /\ idx = 0
    /\ request = NoCall
    /\ response = NoResponse
    /\ ServerIdle

\* buildRelationshipIndex(documents) called again on the built corpus
Rebuild ==
    /\ pc = "ready"
    /\ documents' = buildRelationshipIndex(documents)
    /\ pc' = "rebuilt"
    /\ UNCHANGED <<parsed, docMap, idx, request, response>>
    /\ UNCHANGED serverVars

NextInfer ==
    \/ BuildDocMap
    \/ AddDependents
    \/ InferRelationships
    \/ Rebuild

SpecInfer == InitInfer /\ [][NextInfer]_vars

(***************************************************************************)
(* extractMarkdownLinks, categorizeLink and resolvePath.  The link targets *)
(* are the trimmed second groups of the two link patterns' matches, in the  *)
(* order the two loops meet them.                                          *)
(***************************************************************************)
\* String.prototype.split('/'), empty segments included
RECURSIVE splitFrom(_, _, _)
splitFrom(s, i, segment) ==
    IF i > Len(s) THEN <<segment>>
    ELSE IF CharAt(s, i) = "/" THEN <<segment>> \o splitFrom(s, i + 1, "")
    ELSE splitFrom(s, i + 1, segment \o CharAt(s, i))

split(s) == splitFrom(s, 1, "")

\* Array.prototype.join('/')
RECURSIVE join(_)
join(segments) ==
    IF Len(segments) = 0 THEN ""
    ELSE IF Len(segments) = 1 THEN segments[1]
    ELSE segments[1] \o "/" \o join(Tail(segments))

\* .filter(Boolean) on strings
nonEmpty(segments) == SeqFilter(segments, {k \in 1..Len(segments) : segments[k] # ""})

\* the body of the for loop of resolvePath; pop() on an empty array does nothing
walk(base, segment) ==
    IF segment = ".." THEN SubSeq(base, 1, Len(base) - 1)
    ELSE IF segment # "." THEN Append(base, segment)
    ELSE base

RECURSIVE walkAll(_, _)
walkAll(base, segments) ==
    IF Len(segments) = 0 THEN base
    ELSE walkAll(walk(base, segments[1]), Tail(segments))

resolvePath(basePath, relativePath) ==
    join(walkAll(nonEmpty(split(basePath)), nonEmpty(split(relativePath))))

\* replace(/^\/+/, '')
RECURSIVE stripLeadingSlashes(_)
stripLeadingSlashes(s) ==
    IF startsWith(s, "/") THEN stripLeadingSlashes(SubSeq(s, 2, Len(s))) ELSE s

\* categorizeLink(url, documentPath, internal, external): the two arrays after
\* the call
categorizeLink(url, documentPath, lists) ==
    IF url = "" \/ startsWith(url, "#") THEN lists
    ELSE IF endsWith(url, ".md") \/ includes(url, "va.gov-team")
    THEN LET parts == split(documentPath)
             docDir == join(SubSeq(parts, 1, Len(parts) - 1))
             resolved == IF startsWith(url, "./") \/ startsWith(url, "../")
                         THEN resolvePath(docDir, url) ELSE url
             resolvedPath == stripLeadingSlashes(stripMd(resolved))
         IN IF resolvedPath # "" /\ ~startsWith(resolvedPath, "http")
            THEN [lists EXCEPT !.internal = Append(@, resolvedPath)]
            ELSE lists
    ELSE IF startsWith(url, "http")
    THEN [lists EXCEPT !.external = Append(@, url)]
    ELSE lists

\* [...new Set(arr)]: the first occurrence of each element
RECURSIVE unique(_)
unique(arr) ==
    IF Len(arr) = 0 THEN <<>>
    ELSE LET front == unique(SubSeq(arr, 1, Len(arr) - 1))
         IN IF arrayIncludes(front, arr[Len(arr)]) THEN front
            ELSE Append(front, arr[Len(arr)])

RECURSIVE categorizeAll(_, _, _)
categorizeAll(urls, documentPath, lists) ==
    IF Len(urls) = 0 THEN lists
    ELSE categorizeAll(Tail(urls), documentPath, categorizeLink(urls[1], documentPath, lists))

extractMarkdownLinks(urls, documentPath) ==
    LET lists == categorizeAll(urls, documentPath, [internal |-> <<>>, external |-> <<>>])
    IN [internal |-> unique(lists.internal), external |-> unique(lists.external)]

(***************************************************************************)
(* The link specification: one call of extractMarkdownLinks on a document  *)
(* with up to MaxLinks link targets.                                       *)
(***************************************************************************)
MaxLinks == 2

LinkTargets ==
    { "", "#top", "http://x.io/a", "https://x.io/a.md", "b.md", "./b.md", "../b.md",
      "../../t/c.md", "/abs/c.md", "./a/./b.md", "./...md", "x/va.gov-team/y",
      "mailto:z", "notes.txt" }

LinkDocumentPaths == {"a.md", "s/a.md", "s/u/a.md"}

InitLinks ==
    /\ parsed = <<>>
    /\ documents = <<>>
    /\ docMap = <<>>
    /\ pc = "call"
    /\ idx = 0
    /\ \E n \in 0..MaxLinks :
         \E urls \in [1..n -> LinkTargets], path \in LinkDocumentPaths :
            request = [op |-> "extractMarkdownLinks", urls |-> urls, documentPath |-> path]
    /\ response = NoResponse
    /\ ServerIdle

ExtractLinks ==
    /\ pc = "call"
    /\ response' = Return(extractMarkdownLinks(request.urls, request.documentPath))
    /\ pc' = "done"
    /\ UNCHANGED <<parsed, documents, docMap, idx, request>>
    /\ UNCHANGED serverVars

NextLinks == ExtractLinks

SpecLinks == InitLinks /\ [][NextLinks]_vars

(***************************************************************************)
(* The server specification: the files of the repository, and up to        *)
(* MaxRequests tool calls whose handlers interleave at their awaits.  A    *)
(* handler runs without interruption from one await to the next:           *)
(*   - from the arrival of the request to the await of findDocuments, or,  *)
(*     when documentsLoaded is set, to the await of loadDocuments;         *)
(*   - from the resolution of findDocuments to the await of loadDocuments: *)
(*     this.documents assigned, buildRelationshipIndex, the flag set;      *)
(*   - from the resolution of loadDocuments to the response.               *)
(* parsed is what parseDocument makes of the files, the same at each load. *)
(***************************************************************************)
MaxRequests == 2

Requests == 1..MaxRequests

ServerCorpora ==
    { <<>>,
      << GraphDocument("s/b.md",
            [documentType |-> "testing", title |-> "T", content |-> "Do this First"],
            [internalLinks |-> <<>>, relationships |-> EmptyObject]),
         GraphDocument("s/a.md",
            [documentType |-> "setup-guide", title |-> "Setup", content |-> "before"],
            [internalLinks |-> <<"b", "s/b">>,
             relationships |-> [prerequisites |-> <<>>, followUps |-> <<"s/b.md">>]]) >>,
      << GraphDocument("t/a.md",
            [documentType |-> "guide", title |-> "Guide", content |-> "x"],
            [internalLinks |-> <<"s/a", "a.md", "zz">>,
             relationships |-> [prerequisites |-> <<"zz">>, seeAlso |-> <<"s/a", "b">>]]) >> }

ToolCalls ==
    { [name |-> "search_docs", arguments |-> [query |-> "first"]],
      [name |-> "get_document", arguments |-> [path |-> "s/a.md", include_related |-> TRUE]],
      [name |-> "get_document", arguments |-> [path |-> "s/b.md"]],
      [name |-> "list_categories", arguments |-> EmptyObject],
      [name |-> "reload", arguments |-> EmptyObject] }

Init ==
    /\ parsed \in ServerCorpora
    /\ documents = <<>>
    /\ docMap = <<>>
    /\ pc = "serving"
    /\ idx = 0
    /\ request = NoCall
    /\ response = NoResponse
    /\ documentsLoaded = FALSE
    /\ loads = 0
    /\ handlers = [r \in Requests |-> [pc |-> "pending"]]

\* a faulty variant: searchDocuments sorting the array it is given, as
\* documents.sort(...) would, where the code sorts the copy filter returns
documentsAfterCallSorted(docs, tool) ==
    IF tool.name = "search_docs" /\ Len(docs) >= 2
    THEN LET lowerQuery == toLowerCase(tool.arguments.query)
             order == sortByScore(filtered(docs, "", EmptyObject),
                                  scoresFirst(docs, Len(docs), lowerQuery, EmptyObject))
         IN [k \in 1..Len(docs) |-> docs[order[k]]]
    ELSE docs

\* this.documents after the switch has run for a tool call: filter, slice and
\* map return new arrays, sort works on the array filter returned, and find,
\* forEach and the Map of resolveRelatedDocuments only read the documents
documentsAfterCall(docs, tool) == docs

\* a faulty variant: the handler goes on without awaiting loadDocuments
mayHandleEarly(handler) == handler.pc \in {"awaitFiles", "loaded"}

\* await this.loadDocuments(): the handler goes on when loadDocuments is done
mayHandle(handler) == handler.pc = "loaded"

\* a request arrives: the handler calls loadDocuments, which returns at once
\* when documentsLoaded is set and calls findDocuments when it is not
Arrive(r) ==
    /\ handlers[r].pc = "pending"
    /\ \E tool \in ToolCalls :
         handlers' = [handlers EXCEPT ![r] =
            [pc |-> IF documentsLoaded THEN "loaded" ELSE "awaitFiles", tool |-> tool]]
    /\ UNCHANGED <<parsed, documents, docMap, pc, idx, request, response, documentsLoaded, loads>>

\* findDocuments resolves for the handler of request r: the rest of
\* loadDocuments, lines 50-57
FilesFound(r) ==
    /\ handlers[r].pc = "awaitFiles"
    /\ documents' = buildRelationshipIndex(parsed)
    /\ loads' = loads + 1
    /\ documentsLoaded' = TRUE
    /\ handlers' = [handlers EXCEPT ![r].pc = "loaded"]
    /\ UNCHANGED <<parsed, docMap, pc, idx, request, response>>

\* loadDocuments has resolved for the handler of request r: the switch, which
\* reads this.documents (array number loads) and responds
HandleTool(r) ==
    /\ mayHandle(handlers[r])
    /\ handlers' = [handlers EXCEPT ![r] =
            [pc |-> "done", tool |-> handlers[r].tool,
             seen |-> [array |-> loads, documents |-> documents],
             response |-> callTool(documents, handlers[r].tool)]]
    /\ documents' = documentsAfterCall(documents, handlers[r].tool)
    /\ UNCHANGED <<parsed, docMap, pc, idx, request, response, documentsLoaded, loads>>

Next ==
    \E r \in Requests :
        \/ Arrive(r)
        \/ FilesFound(r)
        \/ HandleTool(r)

Spec == Init /\ [][Next]_vars

(***************************************************************************)
(* Properties of the graph build and of the related-document resolver.     *)
(***************************************************************************)
Built == pc \in {"ready", "done"}

Docs == 1..Len(documents)

Occurrences(arr, x) == Cardinality({k \in 1..Len(arr) : arr[k] = x})

EdgeList(doc, e) == IF Has(doc.relationships, e) THEN doc.relationships[e] ELSE <<>>

\* the links of document a that resolve to document b
LinksTo(a, b) ==
    {k \in 1..Len(parsed[a].internalLinks) :
        findDocumentByPath(parsed[a].internalLinks[k], docMap) = b}

\* C1: after the build, a document B that some internal link of A resolves to
\* has A's identifier in its dependents exactly once, however many of A's
\* links resolve to B.
C1_DependentsOnce ==
    pc = "ready" =>
        \A a \in Docs : \A k \in 1..Len(parsed[a].internalLinks) :
            LET b == findDocumentByPath(parsed[a].internalLinks[k], docMap)
            IN b # undefined =>
                   Occurrences(EdgeList(documents[b], "dependents"),
                               documents[a].relativePath) = 1

\* C1's case: a built corpus in which two links of one document resolve to
\* the same other document.
C1_Witness ==
    /\ pc = "ready"
    /\ \E a, b \in Docs : a # b /\ Cardinality(LinksTo(a, b)) >= 2

ExplicitKept(e) ==
    \A i \in Docs :
        Len(EdgeList(parsed[i], e)) > 0 =>
            /\ Has(documents[i].relationships, e)
            /\ documents[i].relationships[e] = parsed[i].relationships[e]

SameEdge(before, after, e) ==
    /\ Has(before.relationships, e) <=> Has(after.relationships, e)
    /\ EdgeList(before, e) = EdgeList(after, e)

\* C2: after the build a non-empty explicit prerequisites or followUps list is
\* the extracted one, every seeAlso list is the extracted one, and an
\* inference step writes neither dependents nor seeAlso of any document.
C2_ExplicitKept ==
    /\ [](Built =>
            /\ ExplicitKept("prerequisites")
            /\ ExplicitKept("followUps")
            /\ \A i \in Docs : SameEdge(parsed[i], documents[i], "seeAlso"))
    /\ [][pc = "infer" =>
            \A i \in Docs :
                /\ SameEdge(documents[i], documents'[i], "dependents")
                /\ SameEdge(documents[i], documents'[i], "seeAlso")]_vars

\* C2's case: a built corpus with a document whose explicit prerequisites are
\* non-empty and which inference would have given prerequisites had the list
\* been absent; and the same for followUps.
C2_Witness ==
    /\ pc = "ready"
    /\ \E i \in Docs :
         LET bare == [parsed EXCEPT ![i].relationships = EmptyObject]
         IN /\ Len(EdgeList(parsed[i], "prerequisites")) > 0
            /\ inferPrerequisites(bare, i, docMap) # bare
    /\ \E i \in Docs :
         LET bare == [parsed EXCEPT ![i].relationships = EmptyObject]
         IN /\ Len(EdgeList(parsed[i], "followUps")) > 0
            /\ inferFollowUps(bare, i, docMap) # bare

\* the summaries of the identifiers, among the first cap of the edge list,
\* that resolve to a document, in edge order
ResolvableSummaries(ids, cap) ==
    LET first == slice0(ids, cap)
        kept == SeqFilter(first, {k \in 1..Len(first) :
                                      findDocumentByPath(first[k], docMap) # undefined})
    IN [k \in 1..Len(kept) |->
            createDocumentSummary(documents[findDocumentByPath(kept[k], docMap)])]

ReturnedEdge(e) == IF Has(response.value, e) THEN response.value[e] ELSE <<>>

\* C3: resolveRelatedDocuments raises no error, and for each edge type returns
\* the summaries of the identifiers among the first maxPerType that resolve,
\* in edge order, dropping the others.
C3_DanglingDropped ==
    (pc = "done" /\ request.op = "resolveRelatedDocuments") =>
        /\ response.kind = "return"
        /\ \A e \in edgeTypes :
             ReturnedEdge(e) =
                 ResolvableSummaries(EdgeList(documents[request.doc], e), request.maxPerType)

NoResolvableEdge(doc) ==
    \A e \in edgeTypes :
        \A k \in 1..Len(EdgeList(doc, e)) :
            findDocumentByPath(EdgeList(doc, e)[k], docMap) = undefined

\* C4: the result of resolveRelatedDocuments maps no edge type to an empty
\* list, and get_document with include_related = true for a document none of
\* whose edges resolves returns a response without related_documents.
C4_NoEmptyEdgeType ==
    /\ (pc = "done" /\ request.op = "resolveRelatedDocuments" /\ response.kind = "return") =>
            \A e \in DOMAIN response.value : Len(response.value[e]) > 0
    /\ (/\ pc = "done"
        /\ request.op = "get_document"
        /\ Has(request.arguments, "include_related")
        /\ request.arguments.include_related) =>
            \A i \in Docs :
                (documents[i].relativePath = request.arguments.path
                    /\ NoResolvableEdge(documents[i])) =>
                        /\ response.kind = "return"
                        /\ ~Has(response.value, "related_documents")

(***************************************************************************)
(* Properties of searchDocuments and of the search_docs handler.           *)
(***************************************************************************)
Searched == pc = "done" /\ request.op = "searchDocuments"

Handled == pc = "done" /\ request.op = "search_docs"

Range(seq) == {seq[k] : k \in 1..Len(seq)}

Without(obj, key) == [k \in DOMAIN obj \ {key} |-> obj[k]]

Flagged(options) == Has(options, "excludeOutdated") /\ options.excludeOutdated

Unlimited(options) == ~Has(options, "limit") \/ options.limit = 0

Outdated(k) == assessDocumentFreshness(documents[k]).isOutdated

\* the documents that pass the filters of the request other than the
\* freshness exclusion
PassingOthers ==
    {k \in Docs : passesFilter(documents[k], toLowerCase(request.query),
                               Without(request.options, "excludeOutdated"))}

\* C5: with excludeOutdated = true a search returns no document that
\* assessDocumentFreshness flags and, when nothing is truncated, every other
\* document the request without the flag returns; with the flag false or
\* absent the flagged documents that pass the other filters are returned too,
\* those older than a year with recency bonus 0.
C5_ExcludeOutdated ==
    (Searched /\ response.kind = "return") =>
        LET options == request.options
            found == Range(response.value)
        IN /\ Flagged(options) => \A k \in found : ~Outdated(k)
           /\ (Flagged(options) /\ Unlimited(options)) =>
                  found = {k \in PassingOthers : ~Outdated(k)}
           /\ (~Flagged(options) /\ Unlimited(options)) => found = PassingOthers
           /\ ~Flagged(options) =>
                  \A k \in found :
                      documents[k].lastModified > maxFreshDays => freshnessBonus(documents[k]) = 0

C5_Witness ==
    /\ Searched
    /\ response.kind = "return"
    /\ Flagged(request.options)
    /\ Unlimited(request.options)
    /\ Len(response.value) > 0
    /\ \E k \in PassingOthers : Outdated(k) /\ documents[k].lastModified = 400

\* C6: every document a search returns has the category of the request when
\* one is set, a type of documentTypes when that list is not empty, and the
\* lower-cased query as a substring of its lower-cased title, content and
\* serialized front matter.
C6_HardFilters ==
    (Searched /\ response.kind = "return") =>
        \A k \in Range(response.value) :
            LET doc == documents[k]
                options == request.options
            IN /\ (Has(options, "category") /\ options.category # "") =>
                      doc.category = options.category
               /\ (Has(options, "documentTypes") /\ Len(options.documentTypes) > 0) =>
                      \E j \in 1..Len(options.documentTypes) :
                          options.documentTypes[j] = doc.documentType
               /\ includes(toLowerCase(doc.title \o " " \o doc.content \o " "
                                       \o jsonStringify(doc.frontmatter)),
                           toLowerCase(request.query))

C6_Witness ==
    /\ Searched
    /\ response.kind = "return"
    /\ Has(request.options, "category")
    /\ Has(request.options, "documentTypes")
    /\ Len(request.options.documentTypes) > 0
    /\ Len(response.value) > 0
    /\ \E k \in Docs : documents[k].category # request.options.category
    /\ \E k \in Docs :
         /\ documents[k].category = request.options.category
         /\ k \notin Range(response.value)

\* the scores the comparator computes for the documents of the request
ScoresOf ==
    scoresFirst(documents, Len(documents), toLowerCase(request.query), request.options)

\* C7: the list a search returns is in order of non-increasing relevance
\* score, and two returned documents of equal score are in corpus order.
C7_SortedStable ==
    (Searched /\ response.kind = "return") =>
        LET r == response.value
            score == IF Len(r) < 2 THEN <<>> ELSE ScoresOf
        IN \A i, j \in 1..Len(r) :
               i < j => \/ score[r[i]] > score[r[j]]
                        \/ score[r[i]] = score[r[j]] /\ r[i] < r[j]

C7_Witness ==
    /\ Searched
    /\ response.kind = "return"
    /\ LET r == response.value
           score == IF Len(r) < 2 THEN <<>> ELSE ScoresOf
       IN /\ Len(r) >= 3
          /\ \E i, j \in 1..Len(r) : i < j /\ score[r[i]] = score[r[j]]
          /\ \E i, j \in 1..Len(r) : i < j /\ r[i] > r[j]

\* C8: a search with a non-empty query never ends in an error: it returns a
\* list, the empty list when no document matches.
C8_NeverErrors ==
    /\ (Searched /\ request.query # "") => response.kind = "return"
    /\ (Handled /\ request.arguments.query # "") => response.kind = "return"

\* the options of a search_docs request, the limit left out
UnlimitedOptions(args) ==
    [excludeOutdated |-> Has(args, "exclude_outdated") /\ args.exclude_outdated]
    @@ (IF Has(args, "document_types")
        THEN [documentTypes |-> args.document_types] ELSE EmptyObject)
    @@ [k \in {"category", "context"} \cap DOMAIN args |-> args[k]]

\* C9: with a positive limit L a search returns the first L entries of the
\* list the same search returns without a limit, all of them when there are
\* fewer; a search_docs request without a limit returns the first 10.
C9_Limit ==
    /\ (/\ Searched
        /\ response.kind = "return"
        /\ Has(request.options, "limit")
        /\ request.options.limit > 0) =>
           LET L == request.options.limit
               all == searchDocuments(documents, request.query,
                                      Without(request.options, "limit"))
           IN /\ all.kind = "return"
              /\ Len(response.value) = (IF Len(all.value) < L THEN Len(all.value) ELSE L)
              /\ \A k \in 1..Len(response.value) : response.value[k] = all.value[k]
    /\ (Handled /\ response.kind = "return" /\ ~Has(request.arguments, "limit")) =>
           LET all == searchDocuments(documents, request.arguments.query,
                                      UnlimitedOptions(request.arguments))
               n == IF Len(all.value) < 10 THEN Len(all.value) ELSE 10
           IN /\ all.kind = "return"
              /\ response.value.count = n
              /\ response.value.results = [k \in 1..n |-> all.value[k]]

C9_Witness ==
    /\ Searched
    /\ response.kind = "return"
    /\ Has(request.options, "limit")
    /\ request.options.limit > 0
    /\ Len(response.value) = request.options.limit
    /\ Len(searchDocuments(documents, request.query,
                           Without(request.options, "limit")).value)
           > request.options.limit

(***************************************************************************)
(* Properties of calculateRelevanceScore.                                  *)
(***************************************************************************)
\* C10: of two documents that differ in title only and have equal context
\* bonus (or no context), the one whose title contains the query, compared
\* without regard to case, scores strictly higher than the one whose title
\* does not.
C10_TitleMatchMonotonic ==
    (/\ pc = "done"
     /\ request.op = "calculateRelevanceScore"
     /\ \A k \in 1..2 : response[k].kind = "return") =>
        LET lowerQuery == toLowerCase(request.query)
            InTitle(k) == includes(toLowerCase(documents[k].title), lowerQuery)
            Bonus(k) == contextScore(documents[k], request.options)
        IN \A a, b \in 1..2 :
               (InTitle(a) /\ ~InTitle(b) /\ Bonus(a) = Bonus(b)) =>
                   response[a].value > response[b].value

C10_Witness ==
    /\ pc = "done"
    /\ request.op = "calculateRelevanceScore"
    /\ \A k \in 1..2 : response[k].kind = "return"
    /\ documents[1].title = "AB x"
    /\ documents[2].title = "b"
    /\ toLowerCase(request.query) = "ab"
    /\ Has(request.options, "context")
    /\ request.options.context = "New Developer"
    /\ response[1].value > response[2].value

Scored == pc = "done" /\ request.op = "calculateRelevanceScore"

\* the number of occurrences of the string t in s, taken left to right
\* without overlap (t not empty)
RECURSIVE occurrencesFrom(_, _, _)
occurrencesFrom(s, t, from) ==
    IF from + Len(t) - 1 > Len(s) THEN 0
    ELSE IF SubSeq(s, from, from + Len(t) - 1) = t
         THEN 1 + occurrencesFrom(s, t, from + Len(t))
         ELSE occurrencesFrom(s, t, from + 1)

\* the sum the score is said to be, for document k of the request
StatedScore(k) ==
    LET doc == documents[k]
        q == toLowerCase(request.query)
        title == toLowerCase(doc.title)
        age == doc.lastModified
    IN (IF includes(title, q) THEN 100 ELSE 0)
       + (IF title = q THEN 50 ELSE 0)
       + (IF includes(toLowerCase(doc.summary), q) THEN 50 ELSE 0)
       + 5 * occurrencesFrom(toLowerCase(doc.content), q, 1)
       + (IF Has(request.options, "context") /\ request.options.context # ""
          THEN getContextualRelevance(doc, request.options.context) ELSE 0)
       + (IF doc.documentType \in {"guide", "setup-guide"} THEN 10 ELSE 0)
       + (IF age = NoTimestamp THEN 0
          ELSE IF age < 30 THEN 20
          ELSE IF age < 90 THEN 10
          ELSE IF age < 180 THEN 5
          ELSE 0)

\* C11: the relevance score of every document and query is the sum of the
\* title, exact-title, summary, per-occurrence content, context, type and
\* recency terms, none of them negative.
C11_ScoreIsSum ==
    Scored => \A k \in 1..2 :
        /\ response[k].kind = "return"
        /\ response[k].value = StatedScore(k)
        /\ response[k].value >= 0

\* C12: the content term is 5 times the number of non-overlapping occurrences
\* of the lower-cased query, as a literal string, in the lower-cased content,
\* whatever characters the query has.
C12_ContentTermLiteral ==
    Scored => \A k \in 1..2 :
        LET q == toLowerCase(request.query)
            content == toLowerCase(documents[k].content)
        IN /\ ~regExpInvalid(q)
           /\ contentScore(documents[k], q) = 5 * occurrencesFrom(content, q, 1)

(***************************************************************************)
(* Properties of the get_document handler and of findDocumentByPath.       *)
(***************************************************************************)
\* C13: a get_document request whose path is the relativePath of no loaded
\* document fails with the error "Document not found: <path>", whatever
\* findDocumentByPath would resolve the path to.
C13_NotFound ==
    (/\ pc = "done"
     /\ request.op = "get_document"
     /\ \A k \in Docs : documents[k].relativePath # request.arguments.path) =>
        response = Throw("Error", "Document not found: " \o request.arguments.path)

C13_Witness ==
    /\ pc = "done"
    /\ request.op = "get_document"
    /\ request.arguments.path = "s/a"
    /\ findDocumentByPath("s/a", docMap) # undefined
    /\ response = Throw("Error", "Document not found: s/a")

\* C14: after the build, A's identifier is in B's dependents if and only if
\* A is another document than B and some internal link of A resolves to B.
C14_DependentsExact ==
    pc = "ready" =>
        \A a, b \in Docs :
            arrayIncludes(EdgeList(documents[b], "dependents"), documents[a].relativePath)
                <=> (a # b /\ LinksTo(a, b) # {})

Found == pc \in {"found", "done"} /\ request.op = "findDocumentByPath"

\* the documents one of whose two indexed keys is the string key
Keyed(key) ==
    {k \in Docs : documents[k].relativePath = key \/ stripMd(documents[k].relativePath) = key}

\* the documents one of whose indexed keys contains the string raw
Containing(raw) ==
    {k \in Docs : \E i \in 1..Len(documents[k].relativePath) :
        substr(documents[k].relativePath, i, Len(raw)) = raw}

\* no exact strategy applies to the string raw
OnlyFuzzy(raw) ==
    Keyed(raw) = {} /\ Keyed(raw \o ".md") = {} /\ Keyed(stripMd(raw)) = {}

Assessed == pc = "done" /\ request.op = "assessDocumentFreshness"

\* the marker words
MarkerWords ==
    {"deprecated", "outdated", "no longer maintained", "archive", "legacy",
     "obsolete", "old version"}

\* the contents of FreshContents that name Node 10-12, Ruby 2.0-2.5 or
\* React 10-15 after the product's name and an optional "version"
LegacyVersionContents ==
    {"Node 12", "node version 10", "ruby 2.5", "react 15", "nodeversion11", "Legacy Node 12"}

DocAt(path) == documents[CHOOSE k \in Docs : documents[k].relativePath = path]

\* C18: for the corpus of setup/README.md (a setup guide titled "Getting
\* Started") and setup/guide.md (a guide whose content is a "see also"
\* section listing setup/README, written on one line or as a list), the
\* built graph has guide.md's seeAlso equal to <<"setup/README">> and
\* "setup/guide" in README.md's followUps.
C18_SeeAlsoAndFollowUps ==
    (/\ pc = "ready"
     /\ Len(documents) = 2
     /\ DocAt("setup/README.md").content = "x"
     /\ DocAt("setup/guide.md").content \in
            {"see also: - setup/README", "see also:\n- setup/README"}) =>
        /\ EdgeList(DocAt("setup/guide.md"), "seeAlso") = <<"setup/README">>
        /\ arrayIncludes(EdgeList(DocAt("setup/README.md"), "followUps"), "setup/guide")

(***************************************************************************)
(* Properties of the server.                                               *)
(***************************************************************************)
\* C19: in every interleaving of tool calls the corpus is loaded and the
\* graph built at most once, so this.documents is assigned at most once.
C19_LoadedOnce == loads <= 1

\* C20: a handler that reads this.documents reads an array that has been
\* assigned by a load and on which buildRelationshipIndex has run to its end.
C20_ReadsBuiltGraph ==
    \A r \in Requests :
        handlers[r].pc = "done" =>
            /\ handlers[r].seen.array >= 1
            /\ handlers[r].seen.documents = buildRelationshipIndex(parsed)

C20_Witness ==
    \E r1, r2 \in Requests :
        /\ handlers[r1].pc = "done"
        /\ handlers[r2].pc = "awaitFiles"
        /\ handlers[r1].seen.array = 1
        /\ handlers[r1].seen.documents # parsed
        /\ handlers[r1].response.kind = "return"

(***************************************************************************)
(* Properties of the inference.                                            *)
(***************************************************************************)
Edge(doc, e) == IF Has(doc.relationships, e) THEN doc.relationships[e] ELSE <<>>

\* the edge list of document i is not the one parseDocument gave it
Attached(i, e) == Edge(documents[i], e) # Edge(parsed[i], e)

DependencyWords == {"before", "first", "prerequisite"}

SetupWords == {"setup", "install", "configure", "getting started"}

\* the other setup-guides of document i's category
SetupGuidesFor(i) ==
    {j \in 1..Len(parsed) \ {i} :
        /\ parsed[j].category = parsed[i].category
        /\ parsed[j].documentType = "setup-guide"}

\* the other guide and testing documents of document i's category
FollowUpsFor(i) ==
    {j \in 1..Len(parsed) \ {i} :
        /\ parsed[j].category = parsed[i].category
        /\ parsed[j].documentType \in {"guide", "testing"}}

\* C22: prerequisites are inferred for a document exactly when its content
\* has a dependency word, its title has no setup word, it has no explicit
\* prerequisite and another setup-guide of its category exists; the list has
\* at most 2 entries, each the path of such a setup-guide.
C22_InferredPrerequisites ==
    Built =>
        \A i \in 1..Len(documents) :
            /\ Attached(i, "prerequisites") <=>
                  /\ \E w \in DependencyWords : includes(toLowerCase(parsed[i].content), w)
                  /\ \A w \in SetupWords : ~includes(toLowerCase(parsed[i].title), w)
                  /\ Edge(parsed[i], "prerequisites") = <<>>
                  /\ SetupGuidesFor(i) # {}
            /\ Attached(i, "prerequisites") =>
                  LET list == Edge(documents[i], "prerequisites")
                  IN /\ Len(list) <= 2
                     /\ \A k \in 1..Len(list) :
                           \E j \in SetupGuidesFor(i) : list[k] = parsed[j].relativePath

\* C23: follow-ups are inferred for a document exactly when it is a
\* setup-guide or its title has "getting started", it has no explicit
\* follow-up and an eligible document exists; the list has at most 3 entries,
\* each the path of another guide or testing document of its category.
C23_InferredFollowUps ==
    Built =>
        \A i \in 1..Len(documents) :
            /\ Attached(i, "followUps") <=>
                  /\ \/ parsed[i].documentType = "setup-guide"
                     \/ includes(toLowerCase(parsed[i].title), "getting started")
                  /\ Edge(parsed[i], "followUps") = <<>>
                  /\ FollowUpsFor(i) # {}
            /\ Attached(i, "followUps") =>
                  LET list == Edge(documents[i], "followUps")
                  IN /\ Len(list) <= 3
                     /\ \A k \in 1..Len(list) :
                           \E j \in FollowUpsFor(i) : list[k] = parsed[j].relativePath

\* the documents inferImplicitRelationships has been called for: the loop
\* calls it for document idx at the end of that document's iteration
InferenceDone ==
    IF pc = "docMap" THEN {}
    ELSE IF pc \in {"links", "infer"} THEN 1..(idx - 1)
    ELSE 1..Len(documents)

\* C24: inference starts only after the dependents of every document have
\* been added: no step that adds a document's dependents edges comes after an
\* inferImplicitRelationships step.
C24_InferenceAfterDependents == [][AddDependents => InferenceDone = {}]_vars

\* the first n documents of the set S, in corpus order, as paths
RECURSIVE firstPaths(_, _)
firstPaths(S, n) ==
    IF S = {} \/ n = 0 THEN <<>>
    ELSE LET j == CHOOSE x \in S : \A y \in S : x <= y
         IN <<parsed[j].relativePath>> \o firstPaths(S \ {j}, n - 1)

\* C25: an inferred list never holds the same path twice: with k eligible
\* documents it holds the first min(k, cap) of them in corpus order, cap
\* being 2 for prerequisites and 3 for follow-ups.
C25_InferredDistinct ==
    Built =>
        \A i \in 1..Len(documents) :
            /\ Attached(i, "prerequisites") =>
                  Edge(documents[i], "prerequisites") = firstPaths(SetupGuidesFor(i), 2)
            /\ Attached(i, "followUps") =>
                  Edge(documents[i], "followUps") = firstPaths(FollowUpsFor(i), 3)

(***************************************************************************)
(* Properties of the link extraction.                                      *)
(***************************************************************************)
Extracted == pc = "done" /\ request.op = "extractMarkdownLinks"

OneLink == Extracted /\ Len(request.urls) = 1

NoDuplicates(arr) == \A j, k \in 1..Len(arr) : arr[j] = arr[k] => j = k

\* C26: a link target goes to at most one list: an empty or '#' target to
\* neither; a target that begins with "http" to the external list, also when
\* it ends with ".md"; any other target that ends with ".md" to the internal
\* list; and neither list holds an entry twice.
C26_OneClass ==
    /\ Extracted =>
          /\ NoDuplicates(response.value.internal)
          /\ NoDuplicates(response.value.external)
    /\ OneLink =>
          LET url == request.urls[1]
              internal == response.value.internal
              external == response.value.external
              skipped == url = "" \/ startsWith(url, "#")
          IN /\ Len(internal) + Len(external) <= 1
             /\ skipped => internal = <<>> /\ external = <<>>
             /\ ~skipped /\ startsWith(url, "http") => external = <<url>> /\ internal = <<>>
             /\ ~skipped /\ ~startsWith(url, "http") /\ endsWith(url, ".md") =>
                   Len(internal) = 1 /\ external = <<>>

\* C27: the raw target of an internal link that begins with "./" or "../" is
\* the walk from the document's directory without its ".md" and leading
\* slashes; ".." at the root does nothing, so the target has no "." or ".."
\* segment and stays under the corpus root.
C27_RelativeTargets ==
    OneLink /\ (startsWith(request.urls[1], "./") \/ startsWith(request.urls[1], "../"))
            /\ endsWith(request.urls[1], ".md") =>
        LET url == request.urls[1]
            internal == response.value.internal
        IN /\ Len(internal) = 1
           /\ \A k \in 1..Len(split(internal[1])) : split(internal[1])[k] \notin {"", ".", ".."}
           /\ ~endsWith(internal[1], ".md")
           /\ url = "../../t/c.md" => internal[1] = "t/c"
           /\ url = "../b.md" /\ request.documentPath = "s/u/a.md" => internal[1] = "s/b"
           /\ url = "../b.md" /\ request.documentPath = "a.md" => internal[1] = "b"
           /\ url = "./a/./b.md" /\ request.documentPath = "s/a.md" => internal[1] = "s/a/b"

(***************************************************************************)
(* Properties of a second build.                                           *)
(***************************************************************************)
EdgeNames == {"prerequisites", "followUps", "seeAlso", "dependents"}

\* C28: buildRelationshipIndex is idempotent: called again on the built
\* corpus, it leaves the prerequisites, followUps, seeAlso and dependents of
\* every document as the first call left them.
C28_Idempotent ==
    [][Rebuild =>
          /\ Len(documents') = Len(documents)
          /\ \A i \in 1..Len(documents) : \A e \in EdgeNames :
                Edge(documents'[i], e) = Edge(documents[i], e)]_vars

C28_Witness ==
    /\ pc = "rebuilt"
    /\ \E i, j \in 1..Len(documents) :
          /\ Len(Edge(documents[i], "dependents")) >= 2
          /\ Attached(j, "prerequisites")
          /\ Attached(i, "followUps")

(***************************************************************************)
(* Properties of a search without a limit.                                 *)
(***************************************************************************)
\* the documents that pass the filters of options for the query
Passing(query, options) ==
    {k \in Docs : passesFilter(documents[k], toLowerCase(query), options)}

====
